---------------------------- MODULE Spec2Model ----------------------------
(***************************************************************************)
(* Model of the smart-waste dashboard script (src/app.py).                 *)
(*                                                                         *)
(* The script is run top to bottom once per render pass.  Its only state   *)
(* that survives a pass is st.session_state, holding the keys last_update  *)
(* and bin_data.  A pass is single-threaded, so each way a pass can end is *)
(* one action.                                                             *)
(*                                                                         *)
(* A bin reading keeps the fields the dashboard logic reads: id,           *)
(* fill_level and status.  The coordinates, area name, last_collection,    *)
(* daily_waste, waste_classification, temperature and humidity are only    *)
(* formatted for display and are left out, and so is total_daily_waste of  *)
(* the metrics.                                                            *)
(*                                                                         *)
(* Time is counted in ticks of 1/TicksPerSecond second.  The wall clock is *)
(* taken to be monotonic, and every pass starts at least one tick after    *)
(* the previous one ended.                                                 *)
(*                                                                         *)
(* Floats are modelled as exact fractions [num, den]; the binary rounding  *)
(* of Python floats is not modelled.                                       *)
(***************************************************************************)
EXTENDS Integers, Sequences, FiniteSets, TLC

VARIABLES
    session_state,  \* st.session_state: a function from the keys present to their values
    now,            \* the wall clock at the end of the last pass, in ticks
    pass,           \* what the last pass did: inputs, elapsed time seen, outcome
    generated,      \* the value generate_bin_data returned in the last pass
    view,           \* what the last pass rendered
    passes,         \* number of passes so far
    fn              \* a call of a pure function: its argument and its result

vars == <<session_state, now, pass, generated, view, passes, fn>>

---------------------------------------------------------------------------
(* Bounds *)

\* resolution of the modelled clock
TicksPerSecond == 2
\* number of script runs explored
MaxPasses == 3
\* the random tapes step through FillSamples with strides 0..MaxStride
MaxStride == 1
\* longest snapshot handed to the pure functions
MaxLen == 4
\* classify is applied to every integer in -FillBound..FillBound
FillBound == 120

---------------------------------------------------------------------------
(* The bin catalog and the random source *)

\* the ids of bin_locations, in registration order
bin_locations ==
    <<"BIN001", "BIN002", "BIN003", "BIN004", "BIN005", "BIN006", "BIN007", "BIN008">>

\* representative results of random.randint(10, 95): both ends of the range and
\* both sides of each threshold
FillSamples == <<10, 70, 71, 85, 86, 95>>

\* the fill levels of the scenario given in the specification
ScenarioDraws == <<90, 86, 70, 71, 50, 10, 85, 95>>

\* a sequence of n draws walking through FillSamples
Tape(start, stride, n) ==
    [i \in 1..n |-> FillSamples[((start + (i - 1) * stride) % Len(FillSamples)) + 1]]

\* the draw sequences the random source can deliver to one generate_bin_data call
RandomTapes ==
    {Tape(start, stride, Len(bin_locations)) :
        start \in 0..(Len(FillSamples) - 1), stride \in 0..MaxStride}
    \cup {ScenarioDraws}

RECURSIVE SeqsUpTo(_, _)
\* all sequences over S of length 0..n
SeqsUpTo(S, n) ==
    IF n = 0 THEN {<<>>}
    ELSE LET shorter == SeqsUpTo(S, n - 1)
         IN  shorter \cup {Append(s, x) : s \in {t \in shorter : Len(t) = n - 1}, x \in S}

---------------------------------------------------------------------------
(* Pure functions *)

\* variant: both thresholds inclusive
classify_ge(fill_level) ==
    IF fill_level >= 85 THEN "Critical"
    ELSE IF fill_level >= 70 THEN "Warning"
    ELSE "Good"

\* status = "Critical" if fill_level > 85 else "Warning" if fill_level > 70 else "Good"
classify(fill_level) ==
    IF fill_level > 85 THEN "Critical"
    ELSE IF fill_level > 70 THEN "Warning"
    ELSE "Good"

\* color = 'red' if fill_level > 85 else 'orange' if fill_level > 70 else 'green'
marker_color(fill_level) ==
    IF fill_level > 85 THEN "red"
    ELSE IF fill_level > 70 THEN "orange"
    ELSE "green"

\* the loop of generate_bin_data over the first Len(draws) catalog entries;
\* draws[i] is the result of random.randint(10, 95) for entry i.  The program
\* calls it with one draw per catalog entry.
generate_bin_data(draws) ==
    [i \in 1..Len(draws) |->
        [id |-> bin_locations[i], fill_level |-> draws[i], status |-> classify(draws[i])]]

\* sum(1 for bin_info in bin_data if bin_info['status'] == status)
count_status(bin_data, status) ==
    Len(SelectSeq(bin_data, LAMBDA bin_info : bin_info.status = status))

RECURSIVE sum_fill(_)
\* the sum np.mean takes over the fill levels
sum_fill(bin_data) ==
    IF bin_data = <<>> THEN 0
    ELSE Head(bin_data).fill_level + sum_fill(Tail(bin_data))

\* variant: good_bins leaves the warning bins in
create_efficiency_metrics_good(bin_data) ==
    LET total_bins == Len(bin_data)
        critical_bins == count_status(bin_data, "Critical")
        warning_bins == count_status(bin_data, "Warning")
        good_bins == total_bins - critical_bins
    IN  IF total_bins = 0 THEN [raised |-> "ZeroDivisionError"]
        ELSE [raised |-> "none",
              total_bins |-> total_bins,
              critical_bins |-> critical_bins,
              warning_bins |-> warning_bins,
              good_bins |-> good_bins,
              avg_fill_level |-> [num |-> sum_fill(bin_data), den |-> total_bins],
              collection_efficiency |->
                  [num |-> (10 * good_bins + 7 * warning_bins) * 100,
                   den |-> 10 * total_bins]]

\* variant: the weight 0.7 goes to the critical bins
create_efficiency_metrics_weight(bin_data) ==
    LET total_bins == Len(bin_data)
        critical_bins == count_status(bin_data, "Critical")
        warning_bins == count_status(bin_data, "Warning")
        good_bins == total_bins - critical_bins - warning_bins
    IN  IF total_bins = 0 THEN [raised |-> "ZeroDivisionError"]
        ELSE [raised |-> "none",
              total_bins |-> total_bins,
              critical_bins |-> critical_bins,
              warning_bins |-> warning_bins,
              good_bins |-> good_bins,
              avg_fill_level |-> [num |-> sum_fill(bin_data), den |-> total_bins],
              collection_efficiency |->
                  [num |-> (10 * good_bins + 7 * critical_bins) * 100,
                   den |-> 10 * total_bins]]

\* create_efficiency_metrics.  np.mean of an empty list is nan with a warning and
\* raises nothing; the division by total_bins = 0 raises ZeroDivisionError.
\* collection_efficiency = ((good_bins + warning_bins * 0.7) / total_bins) * 100,
\* kept as the fraction num / den.
create_efficiency_metrics(bin_data) ==
    LET total_bins == Len(bin_data)
        critical_bins == count_status(bin_data, "Critical")
        warning_bins == count_status(bin_data, "Warning")
        good_bins == total_bins - critical_bins - warning_bins
    IN  IF total_bins = 0 THEN [raised |-> "ZeroDivisionError"]
        ELSE [raised |-> "none",
              total_bins |-> total_bins,
              critical_bins |-> critical_bins,
              warning_bins |-> warning_bins,
              good_bins |-> good_bins,
              avg_fill_level |-> [num |-> sum_fill(bin_data), den |-> total_bins],
              collection_efficiency |->
                  [num |-> (10 * good_bins + 7 * warning_bins) * 100,
                   den |-> 10 * total_bins]]

\* the bins the critical alert column emits: all of critical_bins
critical_alerts(bin_data) ==
    SelectSeq(bin_data, LAMBDA bin_info : bin_info.status = "Critical")

\* variant: no [:3]
warning_alerts_uncapped(bin_data) ==
    SelectSeq(bin_data, LAMBDA bin_info : bin_info.status = "Warning")

\* the bins the warning alert column emits: warning_bins[:3]
warning_alerts(bin_data) ==
    LET warning_bins == SelectSeq(bin_data, LAMBDA bin_info : bin_info.status = "Warning")
    IN  SubSeq(warning_bins, 1, IF Len(warning_bins) < 3 THEN Len(warning_bins) ELSE 3)

\* the marker colours create_city_map gives the bins
create_city_map(bin_data) ==
    [i \in 1..Len(bin_data) |-> marker_color(bin_data[i].fill_level)]

---------------------------------------------------------------------------
(* Time *)

TicksPerDay == 86400 * TicksPerSecond

\* (datetime.now() - last_update).seconds: the seconds field of the normalised
\* timedelta, which leaves out whole days and the fraction of a second
timedelta_seconds(t, last_update) ==
    ((t - last_update) % TicksPerDay) \div TicksPerSecond

\* (datetime.now() - st.session_state.last_update).seconds > 30
is_due(t, last_update) ==
    timedelta_seconds(t, last_update) > 30

\* the time between the end of one pass and the start of the next: the least
\* step, just over 29 s, 31 s, and a day and 5 s
IdleTicks ==
    {1, 29 * TicksPerSecond + 1, 31 * TicksPerSecond, TicksPerDay + 5 * TicksPerSecond}

---------------------------------------------------------------------------
(* The session state and one pass of the script *)

\* st.session_state.key = value
Assign(s, key, value) == (key :> value) @@ s

\* what a call of generate_bin_data can end in: a snapshot, or an exception
GeneratorResults ==
    {[ok |-> TRUE, bins |-> generate_bin_data(tape)] : tape \in RandomTapes}
    \cup {[ok |-> FALSE, bins |-> <<>>]}

NoPass == [outcome |-> "none", auto_refresh |-> TRUE, button |-> FALSE, age |-> 0]
NoView == [rendered |-> FALSE]
FnIdle == [op |-> "none", fill |-> 0, bins |-> <<>>, done |-> FALSE,
           status |-> "", metrics |-> [raised |-> "pending"]]

\* if 'last_update' not in st.session_state
first_run == "last_update" \notin DOMAIN session_state

\* st.rerun() ended the last pass: the script runs again at once, with the
\* widgets as they were and the button not pressed
rerun_pending == pass.outcome \in {"auto_refreshed", "manual_refreshed"}

\* the inputs of a pass: d ticks after the last one, with the checkbox at
\* auto_refresh and the button pressed or not.  The button can be pressed only
\* once a pass has shown it.
pass_inputs(d, auto_refresh, button) ==
    /\ passes < MaxPasses
    /\ d \in IdleTicks
    /\ auto_refresh \in BOOLEAN
    /\ button \in BOOLEAN
    /\ rerun_pending => d = 1 /\ auto_refresh = pass.auto_refresh /\ ~button
    /\ button => pass.outcome \in {"rendered", "render_failed", "refresh_failed"}

\* the results the initialisation's generate_bin_data call can have: none when
\* the block is skipped
init_results ==
    IF first_run THEN {g \in GeneratorResults : g.ok} ELSE {[ok |-> FALSE, bins |-> <<>>]}

\* the session state after a successful initialisation block at time t0:
\* last_update = datetime.now(), then bin_data = generate_bin_data()
after_init(g0, t0) ==
    IF first_run
    THEN Assign(Assign(session_state, "last_update", t0), "bin_data", g0.bins)
    ELSE session_state

\* the clock when main reads it: after time.sleep(1) when auto refresh is on
check_time(auto_refresh, t0) ==
    IF auto_refresh THEN t0 + TicksPerSecond ELSE t0

\* variant: last_update is not assigned
refresh_keep_stamp(s, g, t) ==
    IF ~g.ok THEN s
    ELSE Assign(s, "bin_data", g.bins)

\* variant: last_update is assigned before generate_bin_data is called
refresh_stamp_first(s, g, t) ==
    IF ~g.ok THEN Assign(s, "last_update", t)
    ELSE Assign(Assign(s, "last_update", t), "bin_data", g.bins)

\* st.session_state.bin_data = generate_bin_data()
\* st.session_state.last_update = datetime.now()
\* An exception in generate_bin_data leaves both statements undone.
refresh(s, g, t) ==
    IF ~g.ok THEN s
    ELSE Assign(Assign(s, "bin_data", g.bins), "last_update", t)

\* main from bin_data = st.session_state.bin_data on: the metrics, the alert
\* columns and the map
render(bin_data) ==
    LET metrics == create_efficiency_metrics(bin_data)
    IN  IF metrics.raised # "none" THEN NoView
        ELSE [rendered |-> TRUE,
              bin_data |-> bin_data,
              metrics |-> metrics,
              critical_alerts |-> critical_alerts(bin_data),
              warning_alerts |-> warning_alerts(bin_data),
              colors |-> create_city_map(bin_data)]

\* the initialisation block raises in generate_bin_data: last_update is set
\* already, bin_data is not, and main does not run
InitFails ==
    \E d \in IdleTicks :
        /\ passes < MaxPasses
        /\ first_run
        /\ ~rerun_pending
        /\ session_state' = Assign(session_state, "last_update", now + d)
        /\ now' = now + d
        /\ pass' = [outcome |-> "init_failed", auto_refresh |-> TRUE,
                    button |-> FALSE, age |-> 0]
        /\ generated' = <<>>
        /\ view' = NoView
        /\ passes' = passes + 1
        /\ UNCHANGED fn

\* auto refresh is on and due, and the generator returns
AutoRefresh ==
    \E d \in IdleTicks, auto_refresh, button \in BOOLEAN :
      \E g0 \in init_results, g \in GeneratorResults :
        LET t0 == now + d
            s1 == after_init(g0, t0)
            t1 == check_time(auto_refresh, t0)
        IN  /\ pass_inputs(d, auto_refresh, button)
            /\ auto_refresh /\ is_due(t1, s1["last_update"])
            /\ g.ok
            /\ session_state' = refresh(s1, g, t1)
            /\ now' = t1
            /\ pass' = [outcome |-> "auto_refreshed", auto_refresh |-> auto_refresh,
                        button |-> button, age |-> t1 - s1["last_update"]]
            /\ generated' = IF first_run THEN <<g0.bins, g.bins>> ELSE <<g.bins>>
            /\ view' = NoView
            /\ passes' = passes + 1
            /\ UNCHANGED fn

\* no auto refresh happens, the button is pressed, and the generator returns
ManualRefresh ==
    \E d \in IdleTicks, auto_refresh, button \in BOOLEAN :
      \E g0 \in init_results, g \in GeneratorResults :
        LET t0 == now + d
            s1 == after_init(g0, t0)
            t1 == check_time(auto_refresh, t0)
        IN  /\ pass_inputs(d, auto_refresh, button)
            /\ ~(auto_refresh /\ is_due(t1, s1["last_update"]))
            /\ button
            /\ g.ok
            /\ session_state' = refresh(s1, g, t1)
            /\ now' = t1
            /\ pass' = [outcome |-> "manual_refreshed", auto_refresh |-> auto_refresh,
                        button |-> button, age |-> t1 - s1["last_update"]]
            /\ generated' = IF first_run THEN <<g0.bins, g.bins>> ELSE <<g.bins>>
            /\ view' = NoView
            /\ passes' = passes + 1
            /\ UNCHANGED fn

\* a refresh is started, by either trigger, and the generator raises: the
\* exception ends the pass
RefreshFails ==
    \E d \in IdleTicks, auto_refresh, button \in BOOLEAN :
      \E g0 \in init_results, g \in GeneratorResults :
        LET t0 == now + d
            s1 == after_init(g0, t0)
            t1 == check_time(auto_refresh, t0)
        IN  /\ pass_inputs(d, auto_refresh, button)
            /\ (auto_refresh /\ is_due(t1, s1["last_update"])) \/ button
            /\ ~g.ok
            /\ session_state' = refresh(s1, g, t1)
            /\ now' = t1
            /\ pass' = [outcome |-> "refresh_failed", auto_refresh |-> auto_refresh,
                        button |-> button, age |-> t1 - s1["last_update"]]
            /\ generated' = IF first_run THEN <<g0.bins>> ELSE <<>>
            /\ view' = NoView
            /\ passes' = passes + 1
            /\ UNCHANGED fn

\* variant: rendering stores the truncated warning list as the snapshot
RenderPassTruncating ==
    \E d \in IdleTicks, auto_refresh, button \in BOOLEAN :
      \E g0 \in init_results :
        LET t0 == now + d
            s1 == after_init(g0, t0)
            t1 == check_time(auto_refresh, t0)
        IN  /\ pass_inputs(d, auto_refresh, button)
            /\ ~(auto_refresh /\ is_due(t1, s1["last_update"]))
            /\ ~button
            /\ "bin_data" \in DOMAIN s1
            /\ session_state' = Assign(s1, "bin_data", warning_alerts(s1["bin_data"]))
            /\ now' = t1
            /\ pass' = [outcome |-> "rendered",
                        auto_refresh |-> auto_refresh,
                        button |-> button, age |-> t1 - s1["last_update"]]
            /\ generated' = IF first_run THEN <<g0.bins>> ELSE <<>>
            /\ view' = render(s1["bin_data"])
            /\ passes' = passes + 1
            /\ UNCHANGED fn

\* no refresh happens and the stored snapshot is rendered
RenderPass ==
    \E d \in IdleTicks, auto_refresh, button \in BOOLEAN :
      \E g0 \in init_results :
        LET t0 == now + d
            s1 == after_init(g0, t0)
            t1 == check_time(auto_refresh, t0)
        IN  /\ pass_inputs(d, auto_refresh, button)
            /\ ~(auto_refresh /\ is_due(t1, s1["last_update"]))
            /\ ~button
            /\ "bin_data" \in DOMAIN s1
            /\ session_state' = s1
            /\ now' = t1
            /\ pass' = [outcome |-> IF render(s1["bin_data"]).rendered
                                    THEN "rendered" ELSE "render_failed",
                        auto_refresh |-> auto_refresh,
                        button |-> button, age |-> t1 - s1["last_update"]]
            /\ generated' = IF first_run THEN <<g0.bins>> ELSE <<>>
            /\ view' = render(s1["bin_data"])
            /\ passes' = passes + 1
            /\ UNCHANGED fn

\* no refresh happens and the session state has no bin_data:
\* bin_data = st.session_state.bin_data raises AttributeError
RenderFails ==
    \E d \in IdleTicks, auto_refresh, button \in BOOLEAN :
        LET t0 == now + d
            t1 == check_time(auto_refresh, t0)
        IN  /\ pass_inputs(d, auto_refresh, button)
            /\ ~first_run
            /\ ~(auto_refresh /\ is_due(t1, session_state["last_update"]))
            /\ ~button
            /\ "bin_data" \notin DOMAIN session_state
            /\ session_state' = session_state
            /\ now' = t1
            /\ pass' = [outcome |-> "render_failed", auto_refresh |-> auto_refresh,
                        button |-> button, age |-> t1 - session_state["last_update"]]
            /\ generated' = <<>>
            /\ view' = NoView
            /\ passes' = passes + 1
            /\ UNCHANGED fn

Init ==
    /\ session_state = <<>>
    /\ now = 0
    /\ pass = NoPass
    /\ generated = <<>>
    /\ view = NoView
    /\ passes = 0
    /\ fn = FnIdle

Next ==
    \/ InitFails
    \/ AutoRefresh
    \/ ManualRefresh
    \/ RefreshFails
    \/ RenderPass
    \/ RenderFails

Spec == Init /\ [][Next]_vars

---------------------------------------------------------------------------
(* The pure functions applied to arbitrary arguments *)

\* the calls explored: classify on every integer of the range, the metrics on
\* every snapshot of up to MaxLen bins and on the scenario's snapshot
FnCalls ==
    {[FnIdle EXCEPT !.op = "classify", !.fill = f] : f \in (-FillBound)..FillBound}
    \cup {[FnIdle EXCEPT !.op = "metrics", !.bins = generate_bin_data(draws)] :
            draws \in SeqsUpTo({FillSamples[i] : i \in 1..Len(FillSamples)}, MaxLen)
                      \cup {ScenarioDraws}}

FnClassify ==
    /\ fn.op = "classify" /\ ~fn.done
    /\ fn' = [fn EXCEPT !.done = TRUE, !.status = classify(fn.fill)]
    /\ UNCHANGED <<session_state, now, pass, generated, view, passes>>

FnMetrics ==
    /\ fn.op = "metrics" /\ ~fn.done
    /\ fn' = [fn EXCEPT !.done = TRUE, !.metrics = create_efficiency_metrics(fn.bins)]
    /\ UNCHANGED <<session_state, now, pass, generated, view, passes>>

InitFn ==
    /\ session_state = <<>>
    /\ now = 0
    /\ pass = NoPass
    /\ generated = <<>>
    /\ view = NoView
    /\ passes = 0
    /\ fn \in FnCalls

NextFn == FnClassify \/ FnMetrics

SpecFn == InitFn /\ [][NextFn]_vars

---------------------------------------------------------------------------
(* Properties *)

Refreshed == {"auto_refreshed", "manual_refreshed"}

\* the positions of the bins of a snapshot that carry a status
positions(bin_data, status) ==
    {i \in 1..Len(bin_data) : bin_data[i].status = status}

\* the position of a bin in a snapshot whose ids are distinct
position(bin_data, bin_info) ==
    CHOOSE i \in 1..Len(bin_data) : bin_data[i].id = bin_info.id

\* alerts lists, in snapshot order, exactly the bins at the positions wanted
lists_in_order(alerts, bin_data, wanted) ==
    /\ \A k \in 1..Len(alerts) :
          \E i \in 1..Len(bin_data) : bin_data[i] = alerts[k]
    /\ {position(bin_data, alerts[k]) : k \in 1..Len(alerts)} = wanted
    /\ Len(alerts) = Cardinality(wanted)
    /\ \A k \in 1..(Len(alerts) - 1) :
          position(bin_data, alerts[k]) < position(bin_data, alerts[k + 1])

\* C1: the status is a total function of the integer fill level: Critical
\* above 85, Warning above 70 and up to 85, Good up to 70, and never anything
\* else; 86 is Critical, 85 and 71 are Warning, 70 is Good.
C1_ClassifyTotal ==
    (fn.op = "classify" /\ fn.done) =>
        /\ fn.status \in {"Good", "Warning", "Critical"}
        /\ (fn.status = "Critical") <=> (fn.fill > 85)
        /\ (fn.status = "Warning") <=> (70 < fn.fill /\ fn.fill <= 85)
        /\ (fn.status = "Good") <=> (fn.fill <= 70)
        /\ fn.fill = 86 => fn.status = "Critical"
        /\ fn.fill \in {85, 71} => fn.status = "Warning"
        /\ fn.fill = 70 => fn.status = "Good"

C1_Witness ==
    fn.op = "classify" /\ fn.done /\ fn.fill = 85 /\ fn.status = "Warning"

\* C2: the counts returned for a snapshot add up to total_bins, which is the
\* length of the snapshot, and each count is the number of bins of the
\* snapshot carrying that status.
C2_CountsPartition ==
    (fn.op = "metrics" /\ fn.done /\ fn.metrics.raised = "none") =>
        LET m == fn.metrics
        IN  /\ m.total_bins = Len(fn.bins)
            /\ m.good_bins + m.warning_bins + m.critical_bins = m.total_bins
            /\ m.good_bins = Cardinality(positions(fn.bins, "Good"))
            /\ m.warning_bins = Cardinality(positions(fn.bins, "Warning"))
            /\ m.critical_bins = Cardinality(positions(fn.bins, "Critical"))
            /\ m.good_bins >= 0 /\ m.warning_bins >= 0 /\ m.critical_bins >= 0

C2_Witness ==
    /\ fn.op = "metrics" /\ fn.done /\ fn.metrics.raised = "none"
    /\ fn.metrics.good_bins = 2
    /\ fn.metrics.warning_bins = 1
    /\ fn.metrics.critical_bins = 1

C4_AlertLists ==
    view.rendered =>
        LET warning == positions(view.bin_data, "Warning")
            first3 == {i \in warning : Cardinality({j \in warning : j < i}) < 3}
        IN  /\ lists_in_order(view.warning_alerts, view.bin_data, first3)
            /\ Len(view.warning_alerts) <= 3
            /\ Len(view.warning_alerts) =
                  (IF Cardinality(warning) < 3 THEN Cardinality(warning) ELSE 3)
            /\ lists_in_order(view.critical_alerts, view.bin_data,
                              positions(view.bin_data, "Critical"))
            /\ Len(view.critical_alerts) = view.metrics.critical_bins

C4_Witness ==
    /\ view.rendered
    /\ Cardinality(positions(view.bin_data, "Warning")) = 4
    /\ Len(view.warning_alerts) = 3
    /\ Len(view.critical_alerts) = 2

\* C5: the stored snapshot always holds one reading per catalog id, in
\* registration order; a refresh stores the snapshot the generator has just
\* returned, and the stored timestamp is strictly greater after it.
C5_RefreshReplacesAll ==
    [][ /\ "bin_data" \in DOMAIN session_state' =>
              [i \in 1..Len(session_state'["bin_data"]) |-> session_state'["bin_data"][i].id]
                  = bin_locations
        /\ pass'.outcome \in Refreshed =>
              /\ generated' # <<>>
              /\ session_state'["bin_data"] = generated'[Len(generated')]
              /\ Len(session_state'["bin_data"]) = 8
              /\ "last_update" \in DOMAIN session_state =>
                    session_state'["last_update"] > session_state["last_update"]
      ]_vars

C5_Witness ==
    /\ pass.outcome \in Refreshed
    /\ passes = 3
    /\ pass.age > 0
    /\ session_state["last_update"] = now
    /\ session_state["bin_data"] = generated[1]

\* C6: every bin of the stored snapshot has a fill level in [10, 95] and the
\* status its fill level determines, and the colour a rendered map gives a bin
\* agrees with the bin's stored status.
C6_StatusDerived ==
    /\ "bin_data" \in DOMAIN session_state =>
          \A i \in 1..Len(session_state["bin_data"]) :
              LET b == session_state["bin_data"][i]
              IN  /\ b.fill_level \in 10..95
                  /\ (b.status = "Critical") <=> (b.fill_level > 85)
                  /\ (b.status = "Warning") <=> (70 < b.fill_level /\ b.fill_level <= 85)
                  /\ (b.status = "Good") <=> (b.fill_level <= 70)
    /\ view.rendered =>
          /\ view.bin_data = session_state["bin_data"]
          /\ \A i \in 1..Len(view.bin_data) :
                /\ (view.colors[i] = "red") <=> (view.bin_data[i].status = "Critical")
                /\ (view.colors[i] = "orange") <=> (view.bin_data[i].status = "Warning")
                /\ (view.colors[i] = "green") <=> (view.bin_data[i].status = "Good")

C6_Witness ==
    /\ view.rendered
    /\ passes = 3
    /\ \E i, j, k \in 1..Len(view.bin_data) :
          /\ view.bin_data[i].fill_level = 85 /\ view.colors[i] = "orange"
          /\ view.bin_data[j].fill_level = 86 /\ view.colors[j] = "red"
          /\ view.bin_data[k].fill_level = 70 /\ view.colors[k] = "green"

\* C7: a pass that ends without an exception, with auto refresh on, made more
\* than 30 seconds after the last refresh (31 seconds or more, counting whole
\* seconds as the code does), however long after, refreshes the snapshot;
\* with auto refresh off a pass refreshes only when the button is pressed.
C7_AutoRefreshWhenElapsed ==
    /\ (/\ pass.outcome \in {"auto_refreshed", "manual_refreshed", "rendered"}
        /\ pass.auto_refresh
        /\ pass.age >= 31 * TicksPerSecond)
          => pass.outcome \in Refreshed
    /\ (pass.outcome \in Refreshed /\ ~pass.auto_refresh) => pass.button

\* C8: create_efficiency_metrics on an empty snapshot ends in a dedicated
\* empty-fleet error, not in an unguarded division by zero, and returns no
\* metrics.
C8_EmptyFleetGuarded ==
    (fn.op = "metrics" /\ fn.done /\ fn.bins = <<>>) =>
        fn.metrics.raised \notin {"none", "ZeroDivisionError"}

\* C9: a refresh whose generator raises leaves the stored snapshot and the
\* timestamp as they were; a refresh whose generator returns replaces both,
\* the snapshot by the one generated and the timestamp by the time of the
\* refresh; so the timestamp changes in a pass exactly when the snapshot is
\* replaced.
C9_RefreshAllOrNothing ==
    [][ ~first_run =>
          /\ pass'.outcome = "refresh_failed" => session_state' = session_state
          /\ pass'.outcome \in Refreshed =>
                /\ session_state'["bin_data"] = generated'[Len(generated')]
                /\ session_state'["last_update"] = now'
                /\ session_state'["last_update"] # session_state["last_update"]
          /\ (session_state'["last_update"] # session_state["last_update"])
                <=> (pass'.outcome \in Refreshed)
      ]_vars

C9_Witness ==
    /\ pass.outcome = "refresh_failed"
    /\ "bin_data" \in DOMAIN session_state
    /\ session_state["last_update"] < now
    /\ pass.age >= 31 * TicksPerSecond

\* C10: a pass of an initialised session that does no refresh leaves the
\* session state, snapshot and timestamp, unchanged; a store whose snapshot is
\* 30 seconds old or older becomes fresh again only in a pass that refreshes.
C10_OnlyRefreshMutates ==
    [][ ~first_run =>
          /\ pass'.outcome \notin Refreshed => session_state' = session_state
          /\ (/\ now - session_state["last_update"] >= 30 * TicksPerSecond
              /\ now' - session_state'["last_update"] < 30 * TicksPerSecond)
                => pass'.outcome \in Refreshed
      ]_vars

C10_Witness ==
    /\ pass.outcome = "rendered"
    /\ ~pass.auto_refresh
    /\ passes = 3
    /\ now - session_state["last_update"] >= 30 * TicksPerSecond

\* C11: initialisation is atomic with respect to a failure of the generator:
\* in every session state last_update is present only if bin_data is present
\* too, and no pass ends reading a missing snapshot.
C11_InitAtomic ==
    /\ "last_update" \in DOMAIN session_state => "bin_data" \in DOMAIN session_state
    /\ pass.outcome = "render_failed" => "bin_data" \in DOMAIN session_state

=============================================================================
